---- MODULE Spec2Model ----
(***************************************************************************)
(* The embedding / indexing / retrieval pipeline of                        *)
(* Rag_shellokode/backend/vector_database.py as a state machine.           *)
(*                                                                         *)
(* One step is taken per request to a collaborator (vector store,          *)
(* embedding provider) and per asyncio.sleep, the places where a call can  *)
(* fail or be suspended.  A request to the store either is applied and     *)
(* answers, or fails and is not applied.                                   *)
(***************************************************************************)
EXTENDS Integers, Sequences, FiniteSets, TLC

VARIABLES
    store,      \* the vector store: per collection, existence, index, points
    nextId,     \* source of fresh point identifiers (uuid.uuid4)
    pc,         \* per pipeline: the place it has reached in its call
    call,       \* per pipeline: the operation called and its arguments
    loc,        \* per pipeline: the locals of the running call
    ens,        \* per pipeline: the activation of ensure_payload_indexes
    ebr,        \* per pipeline: the activation of embed_batch_with_retry
    hist,       \* per pipeline: the requests and sleeps issued by the call
    result,     \* per pipeline: how the last call ended
    snap,       \* per pipeline: the named collection as it was at call start
    ncalls,     \* calls started so far
    docs        \* the document store: one DocumentRecord per (user, filename)

vars == <<store, nextId, pc, call, loc, ens, ebr, hist, result, snap, ncalls,
          docs>>

----------------------------------------------------------------------------
(* Program constants *)

SAFE_BATCH_SIZE == 8
BASE_DELAY == 20
MAX_RETRIES == 10
POLL_ATTEMPTS == 10
POLL_SLEEP == 3
RATE_STEP == 10
BACKOFF_BASE == 10
ESTIMATED_BYTES_PER_CHUNK == 5096
USER_STORAGE_LIMIT_MB == 500

(* Bounds of the model *)

MaxChunks == 17
MaxCalls == 2
NumTexts == 2
MaxTopK == 2
MaxIngest == 20
MaxSized == 20

Procs == {1, 2}
Colls == {"rag_a", "rag_b"}
Sources == {"a.pdf", "b.pdf"}
Texts == 0 .. (NumTexts - 1)

\* Document lengths: none, one chunk, one full batch, several batches.
ChunkCounts == {0, 1, SAFE_BATCH_SIZE, MaxChunks}

\* Values of top_k.
TopKs == {1, MaxTopK}

----------------------------------------------------------------------------
(* Pure helpers *)

RECURSIVE Pow2(_)
Pow2(k) == IF k = 0 THEN 1 ELSE 2 * Pow2(k - 1)

Min(a, b) == IF a < b THEN a ELSE b

\* The chunk sequence of a document of n chunks (texts repeat, as they may).
Chunks(n) == [k \in 1 .. n |-> (k - 1) % NumTexts]

\* chunks[i:i + SAFE_BATCH_SIZE] with a 0-based offset i.
Slice(chunks, i) ==
    [k \in 1 .. (Min(i + SAFE_BATCH_SIZE, Len(chunks)) - i) |-> chunks[i + k]]

\* The provider's vector for one text (a deterministic stand-in).
EmbeddingOf(text) == [of |-> text]

\* The provider's successful response for a batch: one vector per input text,
\* in input order.
ProviderResponse(batch) == [k \in 1 .. Len(batch) |-> EmbeddingOf(batch[k])]

\* Variant of BuildPoints: the comprehension loses the last pair.
BuildPointsDropsLast(embeddings, batch, source, i, first) ==
    { [id |-> first + j,
       vector |-> embeddings[j + 1],
       text |-> batch[j + 1],
       source |-> source,
       chunk_index |-> i + j] : j \in 0 .. (Min(Len(embeddings), Len(batch)) - 2) }

\* Variant of BuildPoints: chunk_index is the position in the batch, j, not
\* the position in the document, i + j.
BuildPointsBatchIndex(embeddings, batch, source, i, first) ==
    { [id |-> first + j,
       vector |-> embeddings[j + 1],
       text |-> batch[j + 1],
       source |-> source,
       chunk_index |-> j] : j \in 0 .. (Min(Len(embeddings), Len(batch)) - 1) }

\* [PointStruct(...) for j, (emb, chunk) in enumerate(zip(embeddings, batch))]
\* with identifiers first + j; zip stops at the shorter of the two.
BuildPoints(embeddings, batch, source, i, first) ==
    { [id |-> first + j,
       vector |-> embeddings[j + 1],
       text |-> batch[j + 1],
       source |-> source,
       chunk_index |-> i + j] : j \in 0 .. (Min(Len(embeddings), Len(batch)) - 1) }

\* 20, 30, ... : the wait after a rate-limit answer on 0-based attempt a.
RateLimitWait(a) == BASE_DELAY + (a * RATE_STEP)

\* 10 * 2^a : the wait after another exception on 0-based attempt a.
BackoffWait(a) == BACKOFF_BASE * Pow2(a)

\* The store's similarity of two vectors (cosine in the store; here a
\* stand-in that is maximal exactly for equal vectors).
Similarity(v, w) ==
    IF v = w THEN 100
    ELSE IF v.of > w.of THEN 100 - 10 * (v.of - w.of)
    ELSE 100 - 10 * (w.of - v.of)

\* Variant of Ranked: the points come by increasing similarity.
RECURSIVE RankedWorstFirst(_, _, _)
RankedWorstFirst(ps, vector, up) ==
    IF ps = {} THEN <<>>
    ELSE LET worst == CHOOSE x \in ps : \A y \in ps :
                        \/ Similarity(x.vector, vector) < Similarity(y.vector, vector)
                        \/ /\ Similarity(x.vector, vector) = Similarity(y.vector, vector)
                           /\ IF up THEN x.id <= y.id ELSE x.id >= y.id
         IN  <<worst>> \o RankedWorstFirst(ps \ {worst}, vector, up)

\* The points of ps ranked by decreasing similarity to vector; the store
\* breaks ties by identifier, upwards or downwards.
RECURSIVE Ranked(_, _, _)
Ranked(ps, vector, up) ==
    IF ps = {} THEN <<>>
    ELSE LET best == CHOOSE x \in ps : \A y \in ps :
                        \/ Similarity(x.vector, vector) > Similarity(y.vector, vector)
                        \/ /\ Similarity(x.vector, vector) = Similarity(y.vector, vector)
                           /\ IF up THEN x.id <= y.id ELSE x.id >= y.id
         IN  <<best>> \o Ranked(ps \ {best}, vector, up)

\* The records search_relevant_chunks builds from the points of an answer.
Rows(points, vector) ==
    [k \in 1 .. Len(points) |->
        [text |-> points[k].text,
         source |-> points[k].source,
         chunk_index |-> points[k].chunk_index,
         score |-> Similarity(points[k].vector, vector)]]

Prefix(s, k) == [j \in 1 .. Min(k, Len(s)) |-> s[j]]

\* round(num / den) to the nearest integer, ties to the even one (Python's
\* round).
RoundHalfEven(num, den) ==
    LET q == num \div den
        r == num % den
    IN  IF 2 * r < den THEN q
        ELSE IF 2 * r > den THEN q + 1
        ELSE IF q % 2 = 0 THEN q ELSE q + 1

\* round((total_chunks * ESTIMATED_BYTES_PER_CHUNK) / (1024 * 1024), 2), in
\* hundredths of a megabyte.  Numerator and denominator are divided by 32,
\* which divides both, to keep the product within 32 bits.
UsedMb(total_chunks) ==
    RoundHalfEven(total_chunks * ((ESTIMATED_BYTES_PER_CHUNK * 100) \div 32),
                  (1024 * 1024) \div 32)

\* Variant of AvailableMb: the difference is not clamped at 0.
AvailableMbUnclamped(used_mb) == USER_STORAGE_LIMIT_MB * 100 - used_mb

\* max(0, round(USER_STORAGE_LIMIT_MB - used_mb, 2)), in hundredths.
AvailableMb(used_mb) ==
    IF USER_STORAGE_LIMIT_MB * 100 - used_mb > 0
        THEN USER_STORAGE_LIMIT_MB * 100 - used_mb ELSE 0

----------------------------------------------------------------------------
(* The vector store *)

AbsentCollection == [exists |-> FALSE, index |-> "none", points |-> {}]

\* upsert: a point replaces the stored point of the same identifier, if any.
Upserted(points, new) ==
    {pt \in points : \A n \in new : n.id # pt.id} \cup new

\* get_collections(): the names the store lists.
CollectionNames == {c \in Colls : store[c].exists}

\* The type the store reports for the `source` payload index; an index whose
\* creation is still pending is not reported.
ReportedIndex(c) == IF store[c].index = "pending" THEN "none" ELSE store[c].index

\* Variant of IndexConfirmed: only `field in existing` is tested, not the type.
IndexConfirmedAnyType(c) == ReportedIndex(c) # "none"

\* `field not in existing or existing[field] != schema` is false.
IndexConfirmed(c) == ReportedIndex(c) = "keyword"

----------------------------------------------------------------------------
(* Call bookkeeping *)

NoCall == [op |-> "none", coll |-> "rag_a", source |-> "a.pdf",
           chunks |-> <<>>, question |-> 0, top_k |-> 0]

\* Locals of embed_and_store / search_relevant_chunks.
FreshLoc == [i |-> 0, stored |-> 0, isNone |-> FALSE, embeddings |-> <<>>,
             listed |-> "unasked"]

\* An activation of ensure_payload_indexes: its loop variable, what the first
\* describe reported, and the requests and sleeps it has issued.
NoEnsure == [status |-> "idle", firstReport |-> "unread", attempt |-> 0,
             describes |-> 0, indexCreates |-> 0, polls |-> 0, sleeps |-> 0,
             waited |-> 0]

\* An activation of embed_batch_with_retry: its loop variable, the provider
\* calls and sleeps it has issued, and the length of its last sleep.
NoRetry == [status |-> "idle", attempt |-> 0, calls |-> 0, sleeps |-> 0,
            lastWait |-> 0, lastCause |-> "none", onlyRateLimits |-> TRUE]

\* Requests and sleeps of the whole call.
ZeroHist == [lists |-> 0, creates |-> 0, batches |-> 0, upserts |-> 0,
             paces |-> 0, queryEmbeds |-> 0, queries |-> 0, deletes |-> 0,
             providerCalled |-> FALSE, confirmed |-> FALSE,
             usedUnconfirmed |-> FALSE, usedPending |-> FALSE,
             caught |-> FALSE, slices |-> <<>>, paced |-> 0]

\* The dictionary get_collection_stats returns; megabytes in hundredths.
NoStats == [total_chunks |-> 0, used_mb |-> 0, available_mb |-> 0, limit_mb |-> 0]

NoResult == [kind |-> "none", at |-> "none", count |-> 0, rows |-> <<>>,
             stats |-> NoStats]

Bump(p, field) == [hist EXCEPT ![p][field] = @ + 1]

Goto(p, label) == pc' = [pc EXCEPT ![p] = label]

\* The call returns to its caller.
Return(p, count, rows) ==
    /\ pc' = [pc EXCEPT ![p] = "done"]
    /\ result' = [result EXCEPT ![p] =
          [kind |-> "returned", at |-> pc[p], count |-> count, rows |-> rows,
           stats |-> NoStats]]

\* The call raises to its caller.
Raise(p) ==
    /\ pc' = [pc EXCEPT ![p] = "done"]
    /\ result' = [result EXCEPT ![p] =
          [kind |-> "raised", at |-> pc[p], count |-> 0, rows |-> <<>>,
           stats |-> NoStats]]

\* The store's answer to a describe is read: note whether it showed the
\* keyword index on `source`.
Saw(p) ==
    [hist EXCEPT ![p].confirmed = @ \/ store[call[p].coll].index = "keyword"]

\* ensure_payload_indexes has returned and its caller goes on.
EnsureFrameEnds(p) == ens' = [ens EXCEPT ![p] = NoEnsure]

Begin(p, op, coll, source, chunks, question, top_k) ==
    /\ pc[p] \in {"idle", "done"}
    /\ ncalls < MaxCalls
    /\ ncalls' = ncalls + 1
    /\ call' = [call EXCEPT ![p] =
          [op |-> op, coll |-> coll, source |-> source, chunks |-> chunks,
           question |-> question, top_k |-> top_k]]
    /\ loc' = [loc EXCEPT ![p] = FreshLoc]
    /\ ens' = [ens EXCEPT ![p] = NoEnsure]
    /\ ebr' = [ebr EXCEPT ![p] = NoRetry]
    /\ hist' = [hist EXCEPT ![p] = ZeroHist]
    /\ result' = [result EXCEPT ![p] = NoResult]
    /\ snap' = [snap EXCEPT ![p] = store[coll]]
    /\ pc' = [pc EXCEPT ![p] = "get_collections"]
    /\ UNCHANGED <<store, nextId, docs>>

----------------------------------------------------------------------------
(* Calls arriving from the route layer *)

CallEmbedAndStore(p) ==
    \E c \in Colls, s \in Sources, n \in ChunkCounts :
        Begin(p, "embed_and_store", c, s, Chunks(n), 0, 0)

CallSearchRelevantChunks(p) ==
    \E c \in Colls, q \in Texts, k \in TopKs :
        Begin(p, "search_relevant_chunks", c, "a.pdf", <<>>, q, k)

CallDeleteUserDocument(p) ==
    \E c \in Colls, s \in Sources :
        Begin(p, "delete_user_document", c, s, <<>>, 0, 0)

----------------------------------------------------------------------------
(* qdrant_client.get_collections() and the membership test, the first      *)
(* statements of all three operations.                                     *)

GetCollectionsFails(p) ==
    /\ pc[p] = "get_collections"
    /\ hist' = Bump(p, "lists")
    /\ Raise(p)
    /\ UNCHANGED <<store, nextId, call, loc, ens, ebr, snap, ncalls, docs>>

\* Variant of GetCollections: the membership test is made for embed_and_store
\* only, so search and delete go on to provisioning.
GetCollectionsNoAbsenceCheck(p) ==
    /\ pc[p] = "get_collections"
    /\ hist' = Bump(p, "lists")
    /\ loc' = [loc EXCEPT ![p].listed =
                  IF call[p].coll \in CollectionNames THEN "yes" ELSE "no"]
    /\ IF call[p].coll \notin CollectionNames /\ call[p].op = "embed_and_store"
         THEN Goto(p, "create_collection")
         ELSE Goto(p, "ensure")
    /\ UNCHANGED <<store, nextId, call, ens, ebr, result, snap, ncalls, docs>>

\* Variant of GetCollections: embed_and_store goes on to provisioning without
\* creating the collection it found absent.
GetCollectionsSkipsCreate(p) ==
    /\ pc[p] = "get_collections"
    /\ hist' = Bump(p, "lists")
    /\ loc' = [loc EXCEPT ![p].listed =
                  IF call[p].coll \in CollectionNames THEN "yes" ELSE "no"]
    /\ IF call[p].coll \in CollectionNames \/ call[p].op = "embed_and_store"
         THEN Goto(p, "ensure") /\ UNCHANGED result
         ELSE Return(p, 0, <<>>)
    /\ UNCHANGED <<store, nextId, call, ens, ebr, snap, ncalls, docs>>

GetCollections(p) ==
    /\ pc[p] = "get_collections"
    /\ hist' = Bump(p, "lists")
    /\ loc' = [loc EXCEPT ![p].listed =
                  IF call[p].coll \in CollectionNames THEN "yes" ELSE "no"]
    /\ IF call[p].coll \in CollectionNames
         THEN Goto(p, "ensure") /\ UNCHANGED result
       ELSE IF call[p].op = "embed_and_store"
         THEN Goto(p, "create_collection") /\ UNCHANGED result
       ELSE Return(p, 0, <<>>)
    /\ UNCHANGED <<store, nextId, call, ens, ebr, snap, ncalls, docs>>

(* qdrant_client.create_collection(...) of embed_and_store. The store       *)
(* refuses to create a collection that exists.                             *)

CreateCollectionFails(p) ==
    /\ pc[p] = "create_collection"
    /\ hist' = Bump(p, "creates")
    /\ Raise(p)
    /\ UNCHANGED <<store, nextId, call, loc, ens, ebr, snap, ncalls, docs>>

CreateCollection(p) ==
    /\ pc[p] = "create_collection"
    /\ ~store[call[p].coll].exists
    /\ hist' = Bump(p, "creates")
    /\ store' = [store EXCEPT ![call[p].coll] =
                    [exists |-> TRUE, index |-> "none", points |-> {}]]
    /\ Goto(p, "ensure")
    /\ UNCHANGED <<nextId, call, loc, ens, ebr, result, snap, ncalls, docs>>

----------------------------------------------------------------------------
(* ensure_payload_indexes(collection_name)                                  *)

\* The store finishes building an index whose creation was requested.
IndexBuilt(c) ==
    /\ store[c].index = "pending"
    /\ store' = [store EXCEPT ![c].index = "keyword"]
    /\ UNCHANGED <<nextId, pc, call, loc, ens, ebr, hist, result, snap, ncalls, docs>>

\* info = qdrant_client.get_collection(collection_name) fails: logged, re-raised.
EnsureDescribeFails(p) ==
    /\ pc[p] = "ensure"
    /\ ens' = [ens EXCEPT ![p].describes = @ + 1, ![p].status = "raised"]
    /\ Raise(p)
    /\ UNCHANGED <<store, nextId, call, loc, ebr, hist, snap, ncalls, docs>>

\* Variant of EnsureDescribe: the index is created without looking at what the
\* describe reported.
EnsureDescribeAlwaysCreates(p) ==
    /\ pc[p] = "ensure"
    /\ store[call[p].coll].exists
    /\ ens' = [ens EXCEPT ![p].describes = @ + 1, ![p].status = "running",
                          ![p].firstReport = ReportedIndex(call[p].coll)]
    /\ Goto(p, "create_index")
    /\ hist' = Saw(p)
    /\ UNCHANGED <<store, nextId, call, loc, ebr, result, snap, ncalls, docs>>

\* The first describe answers; the index is created only if it is missing or
\* of another type.
EnsureDescribe(p) ==
    /\ pc[p] = "ensure"
    /\ store[call[p].coll].exists
    /\ IF IndexConfirmed(call[p].coll)
         THEN /\ ens' = [ens EXCEPT ![p].describes = @ + 1, ![p].status = "ok",
                                    ![p].firstReport = ReportedIndex(call[p].coll)]
              /\ Goto(p, "ensured")
         ELSE /\ ens' = [ens EXCEPT ![p].describes = @ + 1, ![p].status = "running",
                                    ![p].firstReport = ReportedIndex(call[p].coll)]
              /\ Goto(p, "create_index")
    /\ hist' = Saw(p)
    /\ UNCHANGED <<store, nextId, call, loc, ebr, result, snap, ncalls, docs>>

\* qdrant_client.create_payload_index(...) fails.
CreatePayloadIndexFails(p) ==
    /\ pc[p] = "create_index"
    /\ ens' = [ens EXCEPT ![p].indexCreates = @ + 1, ![p].status = "raised"]
    /\ Raise(p)
    /\ UNCHANGED <<store, nextId, call, loc, ebr, hist, snap, ncalls, docs>>

\* The store accepts the request and builds the index on its own time.
CreatePayloadIndex(p) ==
    /\ pc[p] = "create_index"
    /\ store[call[p].coll].exists
    /\ ens' = [ens EXCEPT ![p].indexCreates = @ + 1, ![p].attempt = 0]
    /\ store' = [store EXCEPT ![call[p].coll].index = "pending"]
    /\ Goto(p, "poll_sleep")
    /\ UNCHANGED <<nextId, call, loc, ebr, hist, result, snap, ncalls, docs>>

\* await asyncio.sleep(3) at the head of each poll.
PollSleep(p) ==
    /\ pc[p] = "poll_sleep"
    /\ ens' = [ens EXCEPT ![p].sleeps = @ + 1, ![p].waited = @ + POLL_SLEEP]
    /\ Goto(p, "poll")
    /\ UNCHANGED <<store, nextId, call, loc, ebr, hist, result, snap, ncalls, docs>>

\* The poll's get_collection fails.
PollFails(p) ==
    /\ pc[p] = "poll"
    /\ ens' = [ens EXCEPT ![p].polls = @ + 1, ![p].status = "raised"]
    /\ Raise(p)
    /\ UNCHANGED <<store, nextId, call, loc, ebr, hist, snap, ncalls, docs>>

\* Variant of Poll: the loop is "while True", so an index that is never
\* reported is polled for ever.
PollKeepsPolling(p) ==
    /\ pc[p] = "poll"
    /\ store[call[p].coll].exists
    /\ IF IndexConfirmed(call[p].coll)
         THEN /\ ens' = [ens EXCEPT ![p].polls = @ + 1, ![p].status = "ok"]
              /\ Goto(p, "ensured")
         ELSE /\ ens' = [ens EXCEPT ![p].polls = @ + 1, ![p].attempt = @ + 1]
              /\ Goto(p, "poll_sleep")
    /\ hist' = Saw(p)
    /\ UNCHANGED <<store, nextId, call, loc, ebr, result, snap, ncalls, docs>>

\* Variant of Poll: the loop has no else clause, so the function returns when
\* the attempts run out.
PollReturnsWhenExhausted(p) ==
    /\ pc[p] = "poll"
    /\ store[call[p].coll].exists
    /\ IF IndexConfirmed(call[p].coll)
         THEN /\ ens' = [ens EXCEPT ![p].polls = @ + 1, ![p].status = "ok"]
              /\ Goto(p, "ensured")
       ELSE IF ens[p].attempt + 1 < POLL_ATTEMPTS
         THEN /\ ens' = [ens EXCEPT ![p].polls = @ + 1, ![p].attempt = @ + 1]
              /\ Goto(p, "poll_sleep")
       ELSE   /\ ens' = [ens EXCEPT ![p].polls = @ + 1]
              /\ Goto(p, "ensured")
    /\ hist' = Saw(p)
    /\ UNCHANGED <<store, nextId, call, loc, ebr, result, snap, ncalls, docs>>

\* The poll answers: break when the index is reported, go round again, or
\* (for ... else) raise RuntimeError after the last attempt.
Poll(p) ==
    /\ pc[p] = "poll"
    /\ store[call[p].coll].exists
    /\ IF IndexConfirmed(call[p].coll)
         THEN /\ ens' = [ens EXCEPT ![p].polls = @ + 1, ![p].status = "ok"]
              /\ Goto(p, "ensured")
              /\ UNCHANGED result
       ELSE IF ens[p].attempt + 1 < POLL_ATTEMPTS
         THEN /\ ens' = [ens EXCEPT ![p].polls = @ + 1, ![p].attempt = @ + 1]
              /\ Goto(p, "poll_sleep")
              /\ UNCHANGED result
       ELSE   /\ ens' = [ens EXCEPT ![p].polls = @ + 1, ![p].status = "raised"]
              /\ Raise(p)
    /\ hist' = Saw(p)
    /\ UNCHANGED <<store, nextId, call, loc, ebr, snap, ncalls, docs>>

----------------------------------------------------------------------------
(* embed_and_store(chunks, source, collection_name), after provisioning     *)

\* A request that reads or writes the points of the call's collection.
Use(p, field) ==
    [hist EXCEPT ![p][field] = @ + 1,
                 ![p].usedUnconfirmed = @ \/ ~hist[p].confirmed,
                 ![p].usedPending = @ \/ store[call[p].coll].index = "pending"]

\* A request to the embedding provider inside embed_batch_with_retry.
ProviderCall(p, status) ==
    /\ ebr' = [ebr EXCEPT ![p].calls = @ + 1, ![p].status = status]
    /\ hist' = [hist EXCEPT ![p].providerCalled = TRUE]

\* The same, answered by a failure that the function waits out.
ProviderCallThenWait(p, wait, cause) ==
    /\ ebr' = [ebr EXCEPT ![p].calls = @ + 1, ![p].lastWait = wait,
                          ![p].lastCause = cause,
                          ![p].onlyRateLimits = @ /\ cause = "rate_limit"]
    /\ hist' = [hist EXCEPT ![p].providerCalled = TRUE]

\* The batch of the current loop round.
Batch(p) == Slice(call[p].chunks, loc[p].i)

\* `if not chunks: return 0`, else the first round of the batch loop enters
\* embed_batch_with_retry.
CheckChunks(p) ==
    /\ pc[p] = "ensured"
    /\ call[p].op = "embed_and_store"
    /\ EnsureFrameEnds(p)
    /\ IF Len(call[p].chunks) = 0
         THEN /\ Return(p, 0, <<>>)
              /\ UNCHANGED <<loc, ebr, hist>>
         ELSE /\ loc' = [loc EXCEPT ![p].i = 0, ![p].stored = 0]
              /\ ebr' = [ebr EXCEPT ![p] = [NoRetry EXCEPT !.status = "running"]]
              /\ hist' = [hist EXCEPT ![p].batches = @ + 1,
                     ![p].slices = Append(@, Slice(call[p].chunks, 0))]
              /\ Goto(p, "embed_call")
              /\ UNCHANGED result
    /\ UNCHANGED <<store, nextId, call, snap, ncalls, docs>>

\* voyage_client.contextualized_embed(...) answers: return the embeddings.
EmbedOk(p) ==
    /\ pc[p] = "embed_call"
    /\ ProviderCall(p, "returned")
    /\ loc' = [loc EXCEPT ![p].embeddings = ProviderResponse(Batch(p)),
                          ![p].isNone = FALSE]
    /\ Goto(p, "upsert")
    /\ UNCHANGED <<store, nextId, call, ens, result, snap, ncalls, docs>>

\* voyage_client.contextualized_embed(...) answers with one vector fewer than
\* the batch has texts; the function returns what it got.
EmbedOkShort(p) ==
    /\ pc[p] = "embed_call"
    /\ ProviderCall(p, "returned")
    /\ loc' = [loc EXCEPT ![p].embeddings =
                  Prefix(ProviderResponse(Batch(p)), Len(Batch(p)) - 1),
                          ![p].isNone = FALSE]
    /\ Goto(p, "upsert")
    /\ UNCHANGED <<store, nextId, call, ens, result, snap, ncalls, docs>>

\* VoyageError whose message names a rate limit: wait, then `continue`,
\* whatever the attempt.
EmbedRateLimited(p) ==
    /\ pc[p] = "embed_call"
    /\ ProviderCallThenWait(p, RateLimitWait(ebr[p].attempt), "rate_limit")
    /\ Goto(p, "retry_sleep")
    /\ UNCHANGED <<store, nextId, call, loc, ens, result, snap, ncalls, docs>>

\* Variant of EmbedVoyageError: the error is swallowed and the function returns
\* an empty list.
EmbedVoyageErrorSwallowed(p) ==
    /\ pc[p] = "embed_call"
    /\ ProviderCall(p, "returned")
    /\ loc' = [loc EXCEPT ![p].embeddings = <<>>, ![p].isNone = FALSE]
    /\ Goto(p, "upsert")
    /\ UNCHANGED <<store, nextId, call, ens, result, snap, ncalls, docs>>

\* Any other VoyageError: `raise`.
EmbedVoyageError(p) ==
    /\ pc[p] = "embed_call"
    /\ ProviderCall(p, "raised")
    /\ Raise(p)
    /\ UNCHANGED <<store, nextId, call, loc, ens, snap, ncalls, docs>>

\* Any exception that is not a VoyageError: back off and retry before the
\* last attempt, `raise` on the last.
EmbedOtherException(p) ==
    /\ pc[p] = "embed_call"
    /\ IF ebr[p].attempt < MAX_RETRIES - 1
         THEN /\ ProviderCallThenWait(p, BackoffWait(ebr[p].attempt), "exception")
              /\ Goto(p, "retry_sleep")
              /\ UNCHANGED result
         ELSE /\ ProviderCall(p, "raised")
              /\ Raise(p)
    /\ UNCHANGED <<store, nextId, call, loc, ens, snap, ncalls, docs>>

\* await asyncio.sleep(wait); continue.  When the loop has no attempt left the
\* function body ends, which in Python returns None.
RetrySleep(p) ==
    /\ pc[p] = "retry_sleep"
    /\ IF ebr[p].attempt + 1 < MAX_RETRIES
         THEN /\ ebr' = [ebr EXCEPT ![p].sleeps = @ + 1, ![p].attempt = @ + 1]
              /\ Goto(p, "embed_call")
              /\ UNCHANGED loc
         ELSE /\ ebr' = [ebr EXCEPT ![p].sleeps = @ + 1, ![p].attempt = @ + 1,
                                    ![p].status = "returned"]
              /\ loc' = [loc EXCEPT ![p].isNone = TRUE, ![p].embeddings = <<>>]
              /\ Goto(p, "upsert")
    /\ UNCHANGED <<store, nextId, call, ens, hist, result, snap, ncalls, docs>>

\* zip(embeddings, batch) with embeddings = None raises TypeError before any
\* request is made.
ZipOfNone(p) ==
    /\ pc[p] = "upsert"
    /\ loc[p].isNone
    /\ Raise(p)
    /\ UNCHANGED <<store, nextId, call, loc, ens, ebr, hist, snap, ncalls, docs>>

\* qdrant_client.upsert(...) fails.
UpsertFails(p) ==
    /\ pc[p] = "upsert"
    /\ ~loc[p].isNone
    /\ hist' = Use(p, "upserts")
    /\ Raise(p)
    /\ UNCHANGED <<store, nextId, call, loc, ens, ebr, snap, ncalls, docs>>

\* Variant of Upsert: the pacing sleep is not guarded, so it follows the
\* upsert of the last batch too.
UpsertAlwaysPaces(p) ==
    /\ pc[p] = "upsert"
    /\ ~loc[p].isNone
    /\ store[call[p].coll].exists
    /\ hist' = Use(p, "upserts")
    /\ store' = [store EXCEPT ![call[p].coll].points =
                    Upserted(@, BuildPoints(loc[p].embeddings, Batch(p),
                                            call[p].source, loc[p].i, nextId))]
    /\ nextId' = nextId + Min(Len(loc[p].embeddings), Len(Batch(p)))
    /\ loc' = [loc EXCEPT ![p].stored = @ + Len(Batch(p))]
    /\ Goto(p, "pace")
    /\ UNCHANGED <<call, ens, ebr, result, snap, ncalls, docs>>

\* Variant of Upsert: the loop runs over range(0, len(chunks) + 1, 8), one
\* round too many when the length is a multiple of the batch size.
UpsertOneRoundMore(p) ==
    /\ pc[p] = "upsert"
    /\ ~loc[p].isNone
    /\ store[call[p].coll].exists
    /\ hist' = Use(p, "upserts")
    /\ store' = [store EXCEPT ![call[p].coll].points =
                    Upserted(@, BuildPoints(loc[p].embeddings, Batch(p),
                                            call[p].source, loc[p].i, nextId))]
    /\ nextId' = nextId + Min(Len(loc[p].embeddings), Len(Batch(p)))
    /\ loc' = [loc EXCEPT ![p].stored = @ + Len(Batch(p))]
    /\ IF loc[p].i + SAFE_BATCH_SIZE <= Len(call[p].chunks)
         THEN Goto(p, "pace") /\ UNCHANGED result
         ELSE Return(p, loc[p].stored + Len(Batch(p)), <<>>)
    /\ UNCHANGED <<call, ens, ebr, snap, ncalls, docs>>

\* The upsert is applied; stored += len(batch); pace unless this was the last
\* batch, in which case the loop ends and stored is returned.
Upsert(p) ==
    /\ pc[p] = "upsert"
    /\ ~loc[p].isNone
    /\ store[call[p].coll].exists
    /\ hist' = Use(p, "upserts")
    /\ store' = [store EXCEPT ![call[p].coll].points =
                    Upserted(@, BuildPoints(loc[p].embeddings, Batch(p),
                                            call[p].source, loc[p].i, nextId))]
    /\ nextId' = nextId + Min(Len(loc[p].embeddings), Len(Batch(p)))
    /\ loc' = [loc EXCEPT ![p].stored = @ + Len(Batch(p))]
    /\ IF loc[p].i + SAFE_BATCH_SIZE < Len(call[p].chunks)
         THEN Goto(p, "pace") /\ UNCHANGED result
         ELSE Return(p, loc[p].stored + Len(Batch(p)), <<>>)
    /\ UNCHANGED <<call, ens, ebr, snap, ncalls, docs>>

\* await asyncio.sleep(BASE_DELAY), then the next round of the loop enters
\* embed_batch_with_retry anew.
Pace(p) ==
    /\ pc[p] = "pace"
    /\ hist' = [hist EXCEPT ![p].paces = @ + 1, ![p].paced = @ + BASE_DELAY,
                            ![p].batches = @ + 1,
                            ![p].slices = Append(@, Slice(call[p].chunks,
                                              loc[p].i + SAFE_BATCH_SIZE))]
    /\ loc' = [loc EXCEPT ![p].i = @ + SAFE_BATCH_SIZE, ![p].embeddings = <<>>]
    /\ ebr' = [ebr EXCEPT ![p] = [NoRetry EXCEPT !.status = "running"]]
    /\ Goto(p, "embed_call")
    /\ UNCHANGED <<store, nextId, call, ens, result, snap, ncalls, docs>>

----------------------------------------------------------------------------
(* search_relevant_chunks(question, collection_name, top_k), after          *)
(* provisioning                                                            *)

\* The query embedding fails: caught, `return []`.
QueryEmbedFails(p) ==
    /\ pc[p] = "ensured"
    /\ call[p].op = "search_relevant_chunks"
    /\ EnsureFrameEnds(p)
    /\ hist' = [hist EXCEPT ![p].queryEmbeds = @ + 1, ![p].providerCalled = TRUE,
                            ![p].caught = TRUE]
    /\ Return(p, 0, <<>>)
    /\ UNCHANGED <<store, nextId, call, loc, ebr, snap, ncalls, docs>>

\* vector = resp.results[0].embeddings[0]
QueryEmbed(p) ==
    /\ pc[p] = "ensured"
    /\ call[p].op = "search_relevant_chunks"
    /\ EnsureFrameEnds(p)
    /\ hist' = [hist EXCEPT ![p].queryEmbeds = @ + 1, ![p].providerCalled = TRUE]
    /\ loc' = [loc EXCEPT ![p].embeddings = ProviderResponse(<<call[p].question>>)]
    /\ Goto(p, "query_points")
    /\ UNCHANGED <<store, nextId, call, ebr, result, snap, ncalls, docs>>

\* qdrant_client.query_points(...) fails: caught, `return []`.
QueryPointsFails(p) ==
    /\ pc[p] = "query_points"
    /\ hist' = [Use(p, "queries") EXCEPT ![p].caught = TRUE]
    /\ Return(p, 0, <<>>)
    /\ UNCHANGED <<store, nextId, call, loc, ens, ebr, snap, ncalls, docs>>

\* Variant of QueryPoints: the request carries no limit, so the store answers
\* with every point of the collection.
QueryPointsNoLimit(p) ==
    /\ pc[p] = "query_points"
    /\ store[call[p].coll].exists
    /\ hist' = Use(p, "queries")
    /\ \E up \in BOOLEAN :
          LET vector == loc[p].embeddings[1]
              ranked == Ranked(store[call[p].coll].points, vector, up)
          IN  Return(p, 0, Rows(ranked, vector))
    /\ UNCHANGED <<store, nextId, call, loc, ens, ebr, snap, ncalls, docs>>

\* The store answers with its limit best points; one record per point.
QueryPoints(p) ==
    /\ pc[p] = "query_points"
    /\ store[call[p].coll].exists
    /\ hist' = Use(p, "queries")
    /\ \E up \in BOOLEAN :
          LET vector == loc[p].embeddings[1]
              ranked == Ranked(store[call[p].coll].points, vector, up)
          IN  Return(p, 0, Rows(Prefix(ranked, call[p].top_k), vector))
    /\ UNCHANGED <<store, nextId, call, loc, ens, ebr, snap, ncalls, docs>>

----------------------------------------------------------------------------
(* delete_user_document(collection_name, filename), after provisioning      *)

\* qdrant_client.delete(...) fails: logged, re-raised.
DeletePointsFails(p) ==
    /\ pc[p] = "ensured"
    /\ call[p].op = "delete_user_document"
    /\ EnsureFrameEnds(p)
    /\ hist' = Use(p, "deletes")
    /\ Raise(p)
    /\ UNCHANGED <<store, nextId, call, loc, ebr, snap, ncalls, docs>>

\* Variant of DeletePoints: the selector carries no condition, so the request
\* removes every point of the collection.
DeletePointsNoFilter(p) ==
    /\ pc[p] = "ensured"
    /\ call[p].op = "delete_user_document"
    /\ store[call[p].coll].exists
    /\ EnsureFrameEnds(p)
    /\ hist' = Use(p, "deletes")
    /\ store' = [store EXCEPT ![call[p].coll].points = {}]
    /\ Return(p, 0, <<>>)
    /\ UNCHANGED <<nextId, call, loc, ebr, snap, ncalls, docs>>

\* Variant of DeletePoints: the request names no collection, so the filter is
\* applied to every collection of the store.
DeletePointsEverywhere(p) ==
    /\ pc[p] = "ensured"
    /\ call[p].op = "delete_user_document"
    /\ store[call[p].coll].exists
    /\ EnsureFrameEnds(p)
    /\ hist' = Use(p, "deletes")
    /\ store' = [c \in Colls |->
                    [store[c] EXCEPT !.points =
                        {pt \in @ : pt.source # call[p].source}]]
    /\ Return(p, 0, <<>>)
    /\ UNCHANGED <<nextId, call, loc, ebr, snap, ncalls, docs>>

\* Every point whose payload source matches the filename is removed.
DeletePoints(p) ==
    /\ pc[p] = "ensured"
    /\ call[p].op = "delete_user_document"
    /\ store[call[p].coll].exists
    /\ EnsureFrameEnds(p)
    /\ hist' = Use(p, "deletes")
    /\ store' = [store EXCEPT ![call[p].coll].points =
                    {pt \in @ : pt.source # call[p].source}]
    /\ Return(p, 0, <<>>)
    /\ UNCHANGED <<nextId, call, loc, ebr, snap, ncalls, docs>>

----------------------------------------------------------------------------
(* get_collection_stats(collection_name): one read of the store, no await.  *)

\* A call that is served in one step and returns the dictionary stats from
\* the branch named.
Answer(p, c, branch, stats) ==
    /\ pc[p] \in {"idle", "done"}
    /\ ncalls < MaxCalls
    /\ ncalls' = ncalls + 1
    /\ call' = [call EXCEPT ![p] =
          [op |-> "get_collection_stats", coll |-> c, source |-> "a.pdf",
           chunks |-> <<>>, question |-> 0, top_k |-> 0]]
    /\ loc' = [loc EXCEPT ![p] = FreshLoc]
    /\ ens' = [ens EXCEPT ![p] = NoEnsure]
    /\ ebr' = [ebr EXCEPT ![p] = NoRetry]
    /\ hist' = [hist EXCEPT ![p] = ZeroHist]
    /\ snap' = [snap EXCEPT ![p] = store[c]]
    /\ pc' = [pc EXCEPT ![p] = "done"]
    /\ result' = [result EXCEPT ![p] =
          [kind |-> "returned", at |-> branch, count |-> 0,
           rows |-> <<>>, stats |-> stats]]
    /\ UNCHANGED <<store, nextId, docs>>

\* The dictionary of the except branch.
StatsOnError ==
    [total_chunks |-> 0, used_mb |-> 0,
     available_mb |-> USER_STORAGE_LIMIT_MB * 100,
     limit_mb |-> USER_STORAGE_LIMIT_MB * 100]

\* Variant of GetCollectionStatsFails: the except branch reports no capacity.
GetCollectionStatsFailsEmpty(p) ==
    \E c \in Colls : Answer(p, c, "except", NoStats)

\* get_collection fails (the collection is absent, the store is unreachable):
\* caught, the dictionary of the except branch is returned.
GetCollectionStatsFails(p) ==
    \E c \in Colls : Answer(p, c, "except", StatsOnError)

\* get_collection answers with the collection's points_count.
GetCollectionStats(p) ==
    \E c \in Colls :
        /\ store[c].exists
        /\ LET total_chunks == Cardinality(store[c].points)
               used_mb == UsedMb(total_chunks)
           IN  Answer(p, c, "try",
                         [total_chunks |-> total_chunks,
                          used_mb |-> used_mb,
                          available_mb |-> AvailableMb(used_mb),
                          limit_mb |-> USER_STORAGE_LIMIT_MB * 100])

\* The number of chunks whose estimated size fills the storage limit.
FullAt == (USER_STORAGE_LIMIT_MB * 1024 * 1024) \div ESTIMATED_BYTES_PER_CHUNK

\* Values of points_count: small collections, and collections around the
\* storage limit.
SizedCounts ==
    (0 .. MaxSized) \cup ((FullAt - MaxSized) .. (FullAt + MaxSized))

\* get_collection answers with a points_count that is drawn, for a collection
\* too large to be held point by point.
GetCollectionStatsSized(p) ==
    \E c \in Colls, total_chunks \in SizedCounts :
        /\ store[c].exists
        /\ LET used_mb == UsedMb(total_chunks)
           IN  Answer(p, c, "try_sized",
                         [total_chunks |-> total_chunks,
                          used_mb |-> used_mb,
                          available_mb |-> AvailableMb(used_mb),
                          limit_mb |-> USER_STORAGE_LIMIT_MB * 100])

----------------------------------------------------------------------------
(* The routes /embed and /delete of main.py, after the call they await.     *)
(* A user is identified by their collection.                                *)

DocumentRecord(user, filename, chunks_stored) ==
    [user |-> user, filename |-> filename, chunks_stored |-> chunks_stored]

\* The records of a user's file.
RecordsOf(user, filename) ==
    {d \in docs : d.user = user /\ d.filename = filename}

\* /embed: documents.update_one(..., upsert=True) once embed_and_store has
\* returned; an exception of embed_and_store leaves the route before it.
\* The route calls embed_and_store only with the chunks of a text that is
\* not blank, of which there is at least one.
EmbedRouteResponds(p) ==
    /\ pc[p] = "done"
    /\ call[p].op = "embed_and_store"
    /\ Len(call[p].chunks) > 0
    /\ docs' = IF result[p].kind = "returned"
                 THEN (docs \ RecordsOf(call[p].coll, call[p].source))
                      \cup {DocumentRecord(call[p].coll, call[p].source,
                                           result[p].count)}
                 ELSE docs
    /\ Goto(p, "responded")
    /\ UNCHANGED <<store, nextId, call, loc, ens, ebr, hist, result, snap, ncalls>>

\* /delete: documents.delete_one(...) once delete_user_document has returned;
\* an exception of delete_user_document leaves the route before it.
DeleteRouteResponds(p) ==
    /\ pc[p] = "done"
    /\ call[p].op = "delete_user_document"
    /\ docs' = IF result[p].kind = "returned"
                 THEN docs \ RecordsOf(call[p].coll, call[p].source)
                 ELSE docs
    /\ Goto(p, "responded")
    /\ UNCHANGED <<store, nextId, call, loc, ens, ebr, hist, result, snap, ncalls>>

----------------------------------------------------------------------------
(* The specification: one pipeline serving calls one after another.        *)

\* One user has no collection yet; the other's was left by an earlier
\* deployment with an index on `source` that is not of keyword type.
InitialStore ==
    [c \in Colls |-> IF c = "rag_a" THEN AbsentCollection
                     ELSE [exists |-> TRUE, index |-> "other", points |-> {}]]

Init ==
    /\ store = InitialStore
    /\ nextId = 1
    /\ pc = [p \in Procs |-> "idle"]
    /\ call = [p \in Procs |-> NoCall]
    /\ loc = [p \in Procs |-> FreshLoc]
    /\ ens = [p \in Procs |-> NoEnsure]
    /\ ebr = [p \in Procs |-> NoRetry]
    /\ hist = [p \in Procs |-> ZeroHist]
    /\ result = [p \in Procs |-> NoResult]
    /\ snap = [p \in Procs |-> AbsentCollection]
    /\ ncalls = 0
    /\ docs = {}

Step(p) ==
    \/ CallEmbedAndStore(p)
    \/ CallSearchRelevantChunks(p)
    \/ CallDeleteUserDocument(p)
    \/ GetCollectionsFails(p)
    \/ GetCollections(p)
    \/ CreateCollectionFails(p)
    \/ CreateCollection(p)
    \/ EnsureDescribeFails(p)
    \/ EnsureDescribe(p)
    \/ CreatePayloadIndexFails(p)
    \/ CreatePayloadIndex(p)
    \/ PollSleep(p)
    \/ PollFails(p)
    \/ Poll(p)
    \/ CheckChunks(p)
    \/ EmbedOk(p)
    \/ EmbedRateLimited(p)
    \/ EmbedVoyageError(p)
    \/ EmbedOtherException(p)
    \/ RetrySleep(p)
    \/ ZipOfNone(p)
    \/ UpsertFails(p)
    \/ Upsert(p)
    \/ Pace(p)
    \/ QueryEmbedFails(p)
    \/ QueryEmbed(p)
    \/ QueryPointsFails(p)
    \/ QueryPoints(p)
    \/ DeletePointsFails(p)
    \/ DeletePoints(p)

Next ==
    \/ Step(1)
    \/ \E c \in Colls : IndexBuilt(c)

Spec == Init /\ [][Next]_vars

----------------------------------------------------------------------------
(* A second specification: one more request, routes included, to a store    *)
(* that earlier requests have filled.                                       *)

\* Both users have ingested files; the indexes are in place.
PopulatedStore ==
    [c \in Colls |->
        [exists |-> TRUE, index |-> "keyword",
         points |->
            IF c = "rag_a"
              THEN BuildPoints(ProviderResponse(Chunks(3)), Chunks(3), "a.pdf", 0, 1)
                   \cup BuildPoints(ProviderResponse(Chunks(2)), Chunks(2), "b.pdf", 0, 4)
              ELSE BuildPoints(ProviderResponse(Chunks(3)), Chunks(3), "b.pdf", 0, 6)]]

\* The DocumentRecords the /embed requests that filled PopulatedStore left.
PopulatedDocs ==
    {DocumentRecord("rag_a", "a.pdf", 3), DocumentRecord("rag_a", "b.pdf", 2),
     DocumentRecord("rag_b", "b.pdf", 3)}

InitServe ==
    /\ \/ store = InitialStore /\ docs = {}
       \/ store = PopulatedStore /\ docs = PopulatedDocs
    /\ nextId = 9
    /\ pc = [p \in Procs |-> "idle"]
    /\ call = [p \in Procs |-> NoCall]
    /\ loc = [p \in Procs |-> FreshLoc]
    /\ ens = [p \in Procs |-> NoEnsure]
    /\ ebr = [p \in Procs |-> NoRetry]
    /\ hist = [p \in Procs |-> ZeroHist]
    /\ result = [p \in Procs |-> NoResult]
    /\ snap = [p \in Procs |-> AbsentCollection]
    /\ ncalls = MaxCalls - 1

NextServe ==
    \/ Step(1)
    \/ GetCollectionStatsFails(1)
    \/ GetCollectionStats(1)
    \/ EmbedRouteResponds(1)
    \/ DeleteRouteResponds(1)
    \/ \E c \in Colls : IndexBuilt(c)

SpecServe == InitServe /\ [][NextServe]_vars

\* The same store, asked for its statistics only.
NextStats ==
    \/ GetCollectionStatsFails(1)
    \/ GetCollectionStats(1)
    \/ GetCollectionStatsSized(1)

SpecStats == InitServe /\ [][NextStats]_vars

----------------------------------------------------------------------------
(* A third specification: one request, whose document may have any length  *)
(* up to MaxIngest chunks.                                                  *)

CallIngest(p) ==
    \E c \in Colls, n \in 0 .. MaxIngest :
        Begin(p, "embed_and_store", c, "a.pdf", Chunks(n), 0, 0)

InitIngest ==
    /\ store = InitialStore
    /\ docs = {}
    /\ nextId = 1
    /\ pc = [p \in Procs |-> "idle"]
    /\ call = [p \in Procs |-> NoCall]
    /\ loc = [p \in Procs |-> FreshLoc]
    /\ ens = [p \in Procs |-> NoEnsure]
    /\ ebr = [p \in Procs |-> NoRetry]
    /\ hist = [p \in Procs |-> ZeroHist]
    /\ result = [p \in Procs |-> NoResult]
    /\ snap = [p \in Procs |-> AbsentCollection]
    /\ ncalls = MaxCalls - 1

NextIngest ==
    \/ CallIngest(1)
    \/ Step(1)
    \/ \E c \in Colls : IndexBuilt(c)

SpecIngest == InitIngest /\ [][NextIngest]_vars

\* The same single call on an event loop that resumes the coroutine: a call
\* under way takes its next step, because every request it awaits returns or
\* fails and every sleep ends.  Nothing obliges the store to build an index
\* or a caller to make a call.
Running(p) == pc[p] \notin {"idle", "done"} /\ Step(p)

SpecFair == InitIngest /\ [][NextIngest]_vars /\ WF_vars(Running(1))

\* The same request, to a provider whose answer may fall short of the batch.
NextShort ==
    \/ Step(1)
    \/ EmbedOkShort(1)
    \/ \E c \in Colls : IndexBuilt(c)

SpecShort == InitIngest /\ [][NextShort]_vars

----------------------------------------------------------------------------
(* A fourth specification: two requests of two users, each on the user's    *)
(* own collection, served by two pipelines whose steps interleave.          *)

\* The collection of the user whose request pipeline p serves.
CollOf(p) == IF p = 1 THEN "rag_a" ELSE "rag_b"

\* Document lengths of the interleaved requests: one batch, two batches.
ConcChunkCounts == {1, SAFE_BATCH_SIZE + 1}

ConcEmbedAndStore(p) ==
    /\ pc[p] = "idle"
    /\ \E s \in Sources, n \in ConcChunkCounts :
          Begin(p, "embed_and_store", CollOf(p), s, Chunks(n), 0, 0)

ConcSearchRelevantChunks(p) ==
    /\ pc[p] = "idle"
    /\ \E q \in Texts, k \in TopKs :
          Begin(p, "search_relevant_chunks", CollOf(p), "a.pdf", <<>>, q, k)

ConcDeleteUserDocument(p) ==
    /\ pc[p] = "idle"
    /\ \E s \in Sources :
          Begin(p, "delete_user_document", CollOf(p), s, <<>>, 0, 0)

\* The steps of a call that is under way.  The provider answers or fails
\* for good: the waits of embed_batch_with_retry touch no shared state and
\* are left to the other specifications.
Work(p) ==
    \/ GetCollectionsFails(p)
    \/ GetCollections(p)
    \/ CreateCollectionFails(p)
    \/ CreateCollection(p)
    \/ EnsureDescribeFails(p)
    \/ EnsureDescribe(p)
    \/ CreatePayloadIndexFails(p)
    \/ CreatePayloadIndex(p)
    \/ PollSleep(p)
    \/ PollFails(p)
    \/ Poll(p)
    \/ CheckChunks(p)
    \/ EmbedOk(p)
    \/ EmbedVoyageError(p)
    \/ UpsertFails(p)
    \/ Upsert(p)
    \/ Pace(p)
    \/ QueryEmbedFails(p)
    \/ QueryEmbed(p)
    \/ QueryPointsFails(p)
    \/ QueryPoints(p)
    \/ DeletePointsFails(p)
    \/ DeletePoints(p)

InitConc ==
    /\ store \in {InitialStore, PopulatedStore}
    /\ docs = {}
    /\ nextId = 9
    /\ pc = [p \in Procs |-> "idle"]
    /\ call = [p \in Procs |-> NoCall]
    /\ loc = [p \in Procs |-> FreshLoc]
    /\ ens = [p \in Procs |-> NoEnsure]
    /\ ebr = [p \in Procs |-> NoRetry]
    /\ hist = [p \in Procs |-> ZeroHist]
    /\ result = [p \in Procs |-> NoResult]
    /\ snap = [p \in Procs |-> AbsentCollection]
    /\ ncalls = MaxCalls - 2

NextConc ==
    \/ \E p \in Procs :
          \/ ConcEmbedAndStore(p)
          \/ ConcSearchRelevantChunks(p)
          \/ ConcDeleteUserDocument(p)
          \/ Work(p)
    \/ \E c \in Colls : IndexBuilt(c)

SpecConc == InitConc /\ [][NextConc]_vars

----------------------------------------------------------------------------
(* A fifth specification: two requests of one user, both on the user's     *)
(* collection, which does not exist at the start, served by two pipelines  *)
(* whose steps interleave.                                                  *)

\* The file that the request served by pipeline p names.
SourceOf(p) == IF p = 1 THEN "a.pdf" ELSE "b.pdf"

SharedEmbedAndStore(p) ==
    /\ pc[p] = "idle"
    /\ \E n \in ConcChunkCounts :
          Begin(p, "embed_and_store", "rag_a", SourceOf(p), Chunks(n), 0, 0)

SharedSearchRelevantChunks(p) ==
    /\ pc[p] = "idle"
    /\ \E q \in Texts, k \in TopKs :
          Begin(p, "search_relevant_chunks", "rag_a", "a.pdf", <<>>, q, k)

SharedDeleteUserDocument(p) ==
    /\ pc[p] = "idle"
    /\ Begin(p, "delete_user_document", "rag_a", SourceOf(p), <<>>, 0, 0)

InitShared ==
    /\ store = InitialStore
    /\ docs = {}
    /\ nextId = 1
    /\ pc = [p \in Procs |-> "idle"]
    /\ call = [p \in Procs |-> NoCall]
    /\ loc = [p \in Procs |-> FreshLoc]
    /\ ens = [p \in Procs |-> NoEnsure]
    /\ ebr = [p \in Procs |-> NoRetry]
    /\ hist = [p \in Procs |-> ZeroHist]
    /\ result = [p \in Procs |-> NoResult]
    /\ snap = [p \in Procs |-> AbsentCollection]
    /\ ncalls = MaxCalls - 2

NextShared ==
    \/ \E p \in Procs :
          \/ SharedEmbedAndStore(p)
          \/ SharedSearchRelevantChunks(p)
          \/ SharedDeleteUserDocument(p)
          \/ Work(p)
    \/ \E c \in Colls : IndexBuilt(c)

SpecShared == InitShared /\ [][NextShared]_vars

----------------------------------------------------------------------------
(* A sixth specification: a document is ingested into an empty store and   *)
(* the same collection is searched right after.                             *)

\* Document lengths of the ingestion: up to one chunk more than there are
\* texts, so that some text occurs twice.
RetrieveChunkCounts == 1 .. (NumTexts + 1)

RetrieveEmbedAndStore(p) ==
    /\ pc[p] = "idle"
    /\ \E c \in Colls, n \in RetrieveChunkCounts :
          Begin(p, "embed_and_store", c, "a.pdf", Chunks(n), 0, 0)

\* The search that follows an ingestion that has returned.
RetrieveSearchRelevantChunks(p) ==
    /\ pc[p] = "done"
    /\ call[p].op = "embed_and_store"
    /\ result[p].kind = "returned"
    /\ \E q \in Texts, k \in TopKs :
          Begin(p, "search_relevant_chunks", call[p].coll, "a.pdf", <<>>, q, k)

InitRetrieve ==
    /\ store = InitialStore
    /\ docs = {}
    /\ nextId = 1
    /\ pc = [p \in Procs |-> "idle"]
    /\ call = [p \in Procs |-> NoCall]
    /\ loc = [p \in Procs |-> FreshLoc]
    /\ ens = [p \in Procs |-> NoEnsure]
    /\ ebr = [p \in Procs |-> NoRetry]
    /\ hist = [p \in Procs |-> ZeroHist]
    /\ result = [p \in Procs |-> NoResult]
    /\ snap = [p \in Procs |-> AbsentCollection]
    /\ ncalls = MaxCalls - 2

NextRetrieve ==
    \/ RetrieveEmbedAndStore(1)
    \/ RetrieveSearchRelevantChunks(1)
    \/ GetCollectionsFails(1)
    \/ GetCollections(1)
    \/ CreateCollectionFails(1)
    \/ CreateCollection(1)
    \/ EnsureDescribeFails(1)
    \/ EnsureDescribe(1)
    \/ CreatePayloadIndexFails(1)
    \/ CreatePayloadIndex(1)
    \/ PollSleep(1)
    \/ PollFails(1)
    \/ Poll(1)
    \/ CheckChunks(1)
    \/ EmbedOk(1)
    \/ EmbedRateLimited(1)
    \/ EmbedVoyageError(1)
    \/ EmbedOtherException(1)
    \/ RetrySleep(1)
    \/ ZipOfNone(1)
    \/ UpsertFails(1)
    \/ Upsert(1)
    \/ QueryEmbedFails(1)
    \/ QueryEmbed(1)
    \/ QueryPointsFails(1)
    \/ QueryPoints(1)
    \/ \E c \in Colls : IndexBuilt(c)

SpecRetrieve == InitRetrieve /\ [][NextRetrieve]_vars

----------------------------------------------------------------------------
(* Properties *)

Pipeline(p, op) == call[p].op = op

Ended(p, op) == Pipeline(p, op) /\ pc[p] = "done"

\* The points the running call has added to its collection.
NewPoints(p) == store[call[p].coll].points \ snap[p].points

Payload(pt) == [text |-> pt.text, source |-> pt.source,
                chunk_index |-> pt.chunk_index, vector |-> pt.vector]

Payloads(ps) == {Payload(pt) : pt \in ps}

\* What the points of chunks lo .. hi - 1 (0-based) of the call must carry.
ChunkPayloads(p, lo, hi) ==
    { [text |-> call[p].chunks[j + 1], source |-> call[p].source,
       chunk_index |-> j, vector |-> EmbeddingOf(call[p].chunks[j + 1])] :
      j \in lo .. (hi - 1) }

\* No request that an operation makes after provisioning has been issued.
NoDependentRequest(p) ==
    /\ hist[p].batches = 0
    /\ hist[p].upserts = 0
    /\ hist[p].queryEmbeds = 0
    /\ hist[p].queries = 0
    /\ hist[p].deletes = 0
    /\ ~hist[p].providerCalled

\* The batches whose upsert has been applied: ceil(stored / SAFE_BATCH_SIZE).
BatchesStored(p) == (loc[p].stored + SAFE_BATCH_SIZE - 1) \div SAFE_BATCH_SIZE

\* C1: embed_batch_with_retry: when the provider answers rate-limit on every
\* one of the MAX_RETRIES attempts (each followed by its wait), the function
\* ends by raising; it never returns normally.
C1_ExhaustedRateLimitRaises ==
    \A p \in Procs :
        (ebr[p].sleeps = MAX_RETRIES /\ ebr[p].onlyRateLimits)
            => ebr[p].status = "raised"

\* C2: embed_and_store: when the embedding or the upsert of batch k fails for
\* good, the call raises, the collection holds what it held before plus exactly
\* the points of batches 1 .. k-1 (8 * (k-1) points), and no embedding or
\* upsert of a later batch has been issued.
C2_PartialFailureKeepsPriorBatches ==
    \A p \in Procs :
        \* a failed embedding or a failed upsert ends the call by a raise
        /\ (Pipeline(p, "embed_and_store")
               /\ \/ ebr[p].status = "raised"
                  \/ loc[p].isNone /\ pc[p] # "upsert"
                  \/ hist[p].upserts # BatchesStored(p))
           => /\ pc[p] = "done" /\ result[p].kind = "raised"
              /\ result[p].at \in {"embed_call", "upsert"}
        \* and leaves the collection with the earlier batches only
        /\ (Ended(p, "embed_and_store") /\ result[p].kind = "raised"
               /\ result[p].at \in {"embed_call", "upsert"})
           => LET k == (loc[p].i \div SAFE_BATCH_SIZE) + 1
              IN
               /\ snap[p].points \subseteq store[call[p].coll].points
               /\ Cardinality(NewPoints(p)) = SAFE_BATCH_SIZE * (k - 1)
               /\ Payloads(NewPoints(p)) =
                      ChunkPayloads(p, 0, SAFE_BATCH_SIZE * (k - 1))
               /\ loc[p].stored = SAFE_BATCH_SIZE * (k - 1)
               /\ hist[p].batches = k
               /\ hist[p].upserts =
                      IF result[p].at = "upsert" /\ ~loc[p].isNone
                        THEN k ELSE k - 1

\* C2 witness: a failure in the second or a later batch.
C2_Witness ==
    \E p \in Procs :
        /\ Ended(p, "embed_and_store") /\ result[p].kind = "raised"
        /\ result[p].at \in {"embed_call", "upsert"}
        /\ loc[p].i >= SAFE_BATCH_SIZE

\* C3: embed_batch_with_retry: a provider failure is raised to the caller only
\* on the 10th attempt; before that every failure is retried.
C3_OnlyLastAttemptRaises ==
    \A p \in Procs :
        ebr[p].status = "raised" => ebr[p].calls = MAX_RETRIES

\* C4: embed_batch_with_retry: after rate-limit answers on the first k attempts
\* and success on attempt k+1, the function returns the vectors of that
\* response, one per text of the batch in order, has made k+1 <= 10 provider
\* calls, and the upsert that follows carries every chunk of the batch.
C4_SuccessAfterRateLimits ==
    \A p \in Procs :
        (ebr[p].status = "returned" /\ ebr[p].onlyRateLimits /\ ~loc[p].isNone)
        => /\ ebr[p].calls = ebr[p].sleeps + 1
           /\ ebr[p].calls <= MAX_RETRIES
           /\ Len(loc[p].embeddings) = Len(Batch(p))
           /\ \A j \in 1 .. Len(Batch(p)) :
                 loc[p].embeddings[j] = EmbeddingOf(Batch(p)[j])
           /\ (pc[p] = "pace" \/ (pc[p] = "done" /\ result[p].kind = "returned"))
              => Payloads({pt \in NewPoints(p) : pt.chunk_index >= loc[p].i})
                    = ChunkPayloads(p, loc[p].i, loc[p].i + Len(Batch(p)))

\* C4 witness: rate-limited three times, answered on the fourth attempt, batch
\* upserted.
C4_Witness ==
    \E p \in Procs :
        /\ ebr[p].status = "returned" /\ ebr[p].onlyRateLimits
        /\ ebr[p].sleeps = 3 /\ ebr[p].calls = 4
        /\ pc[p] = "pace"

\* C5: embed_and_store with no chunks returns 0 without any request to the
\* vector store or to the embedding provider.
C5_EmptyIngestNoRequest ==
    \A p \in Procs :
        (Ended(p, "embed_and_store") /\ Len(call[p].chunks) = 0)
        => /\ result[p].kind = "returned"
           /\ result[p].count = 0
           /\ hist[p].lists = 0
           /\ hist[p].creates = 0
           /\ ens[p].describes = 0
           /\ ens[p].indexCreates = 0
           /\ NoDependentRequest(p)

\* C6: no upsert, similarity query or delete-by-filter is issued unless the
\* store has, earlier in the same call, reported the keyword index on `source`;
\* none is issued while the creation of the index is pending.
C6_UseOnlyAfterIndexConfirmed ==
    \A p \in Procs : ~hist[p].usedUnconfirmed /\ ~hist[p].usedPending

\* C6 witness: a similarity query on a collection whose index was not there
\* when the call began.
C6_Witness ==
    \E p \in Procs :
        /\ Pipeline(p, "search_relevant_chunks")
        /\ hist[p].queries > 0
        /\ snap[p].exists /\ snap[p].index # "keyword"

\* C7: ensure_payload_indexes issues at most one index creation and at most 10
\* polls, each after one wait; when the 10th poll does not report the index it
\* raises, and whenever it raises the calling operation raises and has issued
\* no embedding call, upsert, query or delete.
C7_PollCeilingIsFatal ==
    \A p \in Procs :
        /\ ens[p].polls <= POLL_ATTEMPTS
        /\ ens[p].indexCreates <= 1
        /\ ens[p].sleeps = (IF pc[p] = "poll" THEN ens[p].polls + 1 ELSE ens[p].polls)
        /\ ens[p].waited = POLL_SLEEP * ens[p].sleeps
        /\ (ens[p].polls = POLL_ATTEMPTS /\ ens[p].status # "ok")
              => ens[p].status = "raised"
        /\ ens[p].status = "raised"
              => /\ pc[p] = "done"
                 /\ result[p].kind = "raised"
                 /\ NoDependentRequest(p)
        /\ pc[p] \in {"ensured", "embed_call", "retry_sleep", "upsert", "pace",
                      "query_points"}
              => hist[p].confirmed

\* C7 witness: the 10th poll of a search answered without the index.
C7_Witness ==
    \E p \in Procs :
        /\ Ended(p, "search_relevant_chunks")
        /\ ens[p].polls = POLL_ATTEMPTS /\ ens[p].sleeps = POLL_ATTEMPTS
        /\ ens[p].status = "raised"
        /\ store[call[p].coll].index = "pending"

\* C8: when the first describe of ensure_payload_indexes reports the keyword
\* index, the function returns after that one request, with no index creation,
\* no poll and no wait, and the collection's points are as they were; and
\* whenever the function returns, the index is there for the next call.
C8_EnsureIdempotent ==
    \A p \in Procs :
        /\ (ens[p].status = "ok" /\ ens[p].firstReport = "keyword")
              => /\ ens[p].describes = 1
                 /\ ens[p].indexCreates = 0
                 /\ ens[p].polls = 0
                 /\ ens[p].sleeps = 0
                 /\ store[call[p].coll].exists = snap[p].exists
                 /\ store[call[p].coll].points = snap[p].points
        /\ ens[p].status = "ok" => store[call[p].coll].index = "keyword"

\* C8 witness: provisioning in a call that follows the call which created the
\* index.
C8_Witness ==
    \E p \in Procs :
        /\ ncalls = 2
        /\ ens[p].status = "ok" /\ ens[p].firstReport = "keyword"
        /\ pc[p] = "ensured"

\* C9: search_relevant_chunks always returns a list, whatever fails.
C9_SearchNeverRaises ==
    \A p \in Procs :
        Ended(p, "search_relevant_chunks") => result[p].kind = "returned"

\* C10: search_relevant_chunks on a collection the store's listing does not
\* name returns an empty list and issues no provisioning request, no embedding
\* call and no similarity query.
C10_SearchAbsentCollection ==
    \A p \in Procs :
        (Ended(p, "search_relevant_chunks") /\ loc[p].listed = "no")
        => /\ result[p].kind = "returned"
           /\ result[p].rows = <<>>
           /\ hist[p].lists = 1
           /\ ens[p] = NoEnsure
           /\ NoDependentRequest(p)

\* C10 witness: a search that ended on a listing without its collection.
C10_Witness ==
    \E p \in Procs :
        /\ Ended(p, "search_relevant_chunks") /\ loc[p].listed = "no"
        /\ ~store[call[p].coll].exists

\* The call of operation op has ended; its route may have answered since.
Served(p, op) == Pipeline(p, op) /\ pc[p] \in {"done", "responded"}

\* C11: delete_user_document: on a listed, provisioned collection a call that
\* returns has removed exactly the points whose payload source is the given
\* filename and left every other point as it was; on a collection the store
\* does not list the call returns without a provisioning or delete request
\* and without changing the store.
C11_DeleteRemovesExactlySource ==
    \A p \in Procs :
        Served(p, "delete_user_document") =>
            /\ (loc[p].listed = "yes" /\ result[p].kind = "returned") =>
                  /\ store[call[p].coll].points =
                        {pt \in snap[p].points : pt.source # call[p].source}
                  /\ hist[p].deletes = 1
            /\ loc[p].listed = "no" =>
                  /\ result[p].kind = "returned"
                  /\ result[p].at = "get_collections"
                  /\ ens[p] = NoEnsure
                  /\ hist[p].deletes = 0
                  /\ store[call[p].coll] = snap[p]

\* A delete has returned on a collection that held points of the named file
\* and of another file.
C11_Witness ==
    \E p \in Procs :
        /\ Served(p, "delete_user_document")
        /\ result[p].kind = "returned"
        /\ loc[p].listed = "yes"
        /\ \E pt \in snap[p].points : pt.source = call[p].source
        /\ \E pt \in store[call[p].coll].points : pt.source # call[p].source

\* C12: once the /delete route has answered, no DocumentRecord of (user,
\* filename) is left, whether delete_user_document returned or raised; and a
\* failure of provisioning or of the delete request ends delete_user_document
\* by raising.
C12_DeleteRouteRemovesRecord ==
    \A p \in Procs :
        /\ (pc[p] = "responded" /\ Pipeline(p, "delete_user_document")) =>
              RecordsOf(call[p].coll, call[p].source) = {}
        /\ (Served(p, "delete_user_document") /\ ens[p].status = "raised") =>
              result[p].kind = "raised"

\* ceil(a / b)
CeilDiv(a, b) == (a + b - 1) \div b

\* The sequences of ss laid end to end.
RECURSIVE Concat(_)
Concat(ss) == IF ss = <<>> THEN <<>> ELSE Head(ss) \o Concat(Tail(ss))

\* The batches embed_and_store hands to the embedding operation make a
\* partition of chunks into consecutive runs of SAFE_BATCH_SIZE, the last one
\* holding what remains.
PartitionOf(slices, chunks) ==
    /\ Len(slices) = CeilDiv(Len(chunks), SAFE_BATCH_SIZE)
    /\ Concat(slices) = chunks
    /\ \A k \in 1 .. Len(slices) :
          Len(slices[k]) =
              IF k < Len(slices) \/ Len(chunks) % SAFE_BATCH_SIZE = 0
                THEN SAFE_BATCH_SIZE
                ELSE Len(chunks) % SAFE_BATCH_SIZE

\* C13: a call of embed_and_store over n > 0 chunks that returns has made
\* exactly ceil(n / 8) embedding calls, on the consecutive slices of the chunk
\* sequence in order (each of 8 chunks but for a final remainder of n mod 8),
\* exactly ceil(n / 8) upserts, and exactly ceil(n / 8) - 1 pacing delays, of
\* 20 seconds each.
C13_BatchPartition ==
    \A p \in Procs :
        (/\ Ended(p, "embed_and_store")
         /\ result[p].kind = "returned"
         /\ Len(call[p].chunks) > 0) =>
            LET batches == CeilDiv(Len(call[p].chunks), SAFE_BATCH_SIZE)
            IN  /\ hist[p].batches = batches
                /\ PartitionOf(hist[p].slices, call[p].chunks)
                /\ hist[p].upserts = batches
                /\ hist[p].paces = batches - 1
                /\ hist[p].paced = 20 * (batches - 1)

\* An ingestion of three batches, the last one a remainder, has returned.
C13_Witness ==
    \E p \in Procs :
        /\ Ended(p, "embed_and_store")
        /\ result[p].kind = "returned"
        /\ Len(call[p].chunks) > 2 * SAFE_BATCH_SIZE
        /\ Len(call[p].chunks) % SAFE_BATCH_SIZE # 0
        /\ Len(hist[p].slices) = 3

\* C14: when embed_and_store of n chunks with source s returns, the collection
\* holds what it held plus exactly n points; the new points have pairwise
\* distinct identifiers that no earlier point had, all carry source s, and
\* for each position there is exactly one new point with that chunk_index,
\* carrying the chunk's text and the embedding of that text; the call returns n.
C14_PointsMatchChunks ==
    \A p \in Procs :
        (Ended(p, "embed_and_store") /\ result[p].kind = "returned") =>
            LET n == Len(call[p].chunks)
                new == NewPoints(p)
            IN  /\ snap[p].points \subseteq store[call[p].coll].points
                /\ Cardinality(new) = n
                /\ Cardinality({pt.id : pt \in new}) = n
                /\ \A pt \in new, old \in snap[p].points : pt.id # old.id
                /\ \A pt \in new : pt.source = call[p].source
                /\ \A pos \in 0 .. (n - 1) :
                      \E pt \in new :
                          /\ pt.chunk_index = pos
                          /\ pt.text = call[p].chunks[pos + 1]
                          /\ pt.vector = EmbeddingOf(call[p].chunks[pos + 1])
                          /\ \A other \in new :
                                other.chunk_index = pos => other = pt
                /\ result[p].count = n

\* A document of several batches has been ingested into a collection that
\* already held points.
C14_Witness ==
    \E p \in Procs :
        /\ Ended(p, "embed_and_store")
        /\ result[p].kind = "returned"
        /\ Len(call[p].chunks) > SAFE_BATCH_SIZE
        /\ snap[p].points # {}
        /\ Cardinality(NewPoints(p)) = Len(call[p].chunks)

\* C15: get_collection_stats always returns to its caller; when the read of
\* the collection fails, what it returns is total_chunks 0, used_mb 0,
\* available_mb 500 and limit_mb 500 (megabytes are in hundredths here).
C15_StatsNeverRaises ==
    \A p \in Procs :
        Served(p, "get_collection_stats") =>
            /\ result[p].kind = "returned"
            /\ ~snap[p].exists => result[p].at = "except"
            /\ result[p].at = "except" =>
                  /\ result[p].stats.total_chunks = 0
                  /\ result[p].stats.used_mb = 0
                  /\ result[p].stats.available_mb = 50000
                  /\ result[p].stats.limit_mb = 50000

\* The read of a collection that holds points has failed.
C15_Witness ==
    \E p \in Procs :
        /\ Served(p, "get_collection_stats")
        /\ result[p].at = "except"
        /\ snap[p].points # {}

\* What search_relevant_chunks answers on a collection holding points, for
\* either way the store may break ties.
AnswersOn(points, question, top_k) ==
    { Rows(Prefix(Ranked(points, EmbeddingOf(question), up), top_k),
           EmbeddingOf(question)) : up \in BOOLEAN }

\* The points of pipeline p's collection are what the collection held when
\* the call started, changed by the call's own requests only.
OwnEffectOnly(p) ==
    LET points == store[call[p].coll].points
    IN  /\ Pipeline(p, "embed_and_store") =>
              /\ snap[p].points \subseteq points
              /\ Payloads(NewPoints(p)) = ChunkPayloads(p, 0, loc[p].stored)
              /\ Cardinality(NewPoints(p)) = loc[p].stored
        /\ Pipeline(p, "search_relevant_chunks") => points = snap[p].points
        /\ Pipeline(p, "delete_user_document") =>
              IF pc[p] = "done" /\ result[p].kind = "returned"
                 /\ loc[p].listed = "yes"
                THEN points = {pt \in snap[p].points : pt.source # call[p].source}
                ELSE points = snap[p].points

\* C16: two pipelines on different collections do not interfere: as long as
\* a user's request has not started, the user's collection holds what it
\* held at the start; while it runs and when it has ended, the collection
\* is what the call alone makes of it, and what the call returns is what it
\* returns when run alone on the collection as it was at the call's start.
C16_DifferentCollectionsIsolated ==
    \A p \in Procs :
        /\ call[p].op # "none" => call[p].coll = CollOf(p)
        /\ pc[p] = "idle" =>
              store[CollOf(p)].points \in {InitialStore[CollOf(p)].points,
                                           PopulatedStore[CollOf(p)].points}
        /\ pc[p] # "idle" => OwnEffectOnly(p)
        /\ (Ended(p, "embed_and_store") /\ result[p].kind = "returned") =>
              /\ result[p].count = Len(call[p].chunks)
              /\ loc[p].stored = Len(call[p].chunks)
        /\ (Ended(p, "search_relevant_chunks") /\ result[p].at = "query_points"
            /\ ~hist[p].caught) =>
              result[p].rows \in AnswersOn(snap[p].points, call[p].question,
                                           call[p].top_k)

\* Two ingestions of two batches each have returned, and their upserts were
\* interleaved: a batch of one was stored between the two batches of the
\* other.
C16_Witness ==
    /\ \A p \in Procs :
          /\ Ended(p, "embed_and_store")
          /\ result[p].kind = "returned"
          /\ Len(call[p].chunks) > SAFE_BATCH_SIZE
    /\ \E lo, hi \in NewPoints(1), mid \in NewPoints(2) :
          lo.id < mid.id /\ mid.id < hi.id

\* The places of a call up to the end of provisioning.
BeforeProvisioned == {"get_collections", "create_collection", "ensure",
                      "create_index", "poll_sleep", "poll"}

\* C17: in embed_and_store the creation of an absent collection comes before
\* provisioning (no describe or index request before it, and it has been
\* made once provisioning begins), provisioning comes before the first
\* embedding call and the first upsert, and a call that fails in creation or
\* provisioning raises without any embedding call or upsert.
C17_CreateThenProvisionThenEmbed ==
    \A p \in Procs :
        Pipeline(p, "embed_and_store") =>
            /\ pc[p] \in {"get_collections", "create_collection"} =>
                  /\ ens[p] = NoEnsure
                  /\ hist[p].creates = 0
            /\ (pc[p] \in {"ensure", "create_index", "poll_sleep", "poll"}
                \/ ens[p].describes > 0 \/ hist[p].batches > 0) =>
                  hist[p].creates = (IF loc[p].listed = "no" THEN 1 ELSE 0)
            /\ pc[p] \in BeforeProvisioned => NoDependentRequest(p)
            /\ (hist[p].batches > 0 \/ hist[p].upserts > 0) =>
                  /\ hist[p].confirmed
                  /\ store[call[p].coll].exists
            /\ (pc[p] = "done" /\ result[p].at \in BeforeProvisioned) =>
                  /\ result[p].kind = "raised"
                  /\ NoDependentRequest(p)

\* An ingestion that had to create its collection has gone on to embed and
\* store a batch.
C17_Witness ==
    \E p \in Procs :
        /\ Pipeline(p, "embed_and_store")
        /\ loc[p].listed = "no"
        /\ hist[p].creates = 1
        /\ hist[p].upserts > 0

\* C18: the batches of one embed_and_store are served strictly one after
\* another: while the embedding call of a batch is under way every earlier
\* batch has been upserted and followed by one pacing delay of 20 seconds,
\* there is never more than one embedding call whose upsert is outstanding,
\* a pacing delay is entered only when chunks remain, and none follows the
\* upsert of the last batch.
C18_BatchesSerialized ==
    \A p \in Procs :
        Pipeline(p, "embed_and_store") =>
            /\ hist[p].batches - hist[p].upserts \in {0, 1}
            /\ hist[p].paced = 20 * hist[p].paces
            /\ pc[p] \in {"embed_call", "retry_sleep", "upsert"} =>
                  /\ hist[p].upserts = hist[p].batches - 1
                  /\ hist[p].paces = hist[p].batches - 1
                  /\ loc[p].stored = SAFE_BATCH_SIZE * (hist[p].batches - 1)
                  /\ loc[p].i = loc[p].stored
            /\ pc[p] = "pace" =>
                  /\ hist[p].upserts = hist[p].batches
                  /\ hist[p].paces = hist[p].batches - 1
                  /\ loc[p].stored < Len(call[p].chunks)
            /\ (pc[p] = "done" /\ hist[p].batches > 0) =>
                  /\ hist[p].paces = hist[p].batches - 1
                  /\ result[p].kind = "returned" =>
                        /\ hist[p].upserts = hist[p].batches
                        /\ loc[p].stored = Len(call[p].chunks)

\* The embedding call of a third batch is under way.
C18_Witness ==
    \E p \in Procs :
        /\ Pipeline(p, "embed_and_store")
        /\ pc[p] = "embed_call"
        /\ hist[p].batches = 3
        /\ hist[p].paces = 2

\* C19: in embed_batch_with_retry the wait after a rate-limit answer on
\* 0-based attempt a is BASE_DELAY + 10 * a seconds, longer than the wait
\* before it, and a wait is entered only when another provider call follows
\* it, that is while a < 9: once the 10th attempt has failed no wait is made.
C19_RateLimitSchedule ==
    \A p \in Procs :
        (pc[p] = "retry_sleep" /\ ebr[p].lastCause = "rate_limit") =>
            /\ ebr[p].lastWait = 20 + 10 * ebr[p].attempt
            /\ ebr[p].attempt > 0 =>
                  ebr[p].lastWait > RateLimitWait(ebr[p].attempt - 1)
            /\ ebr[p].attempt < MAX_RETRIES - 1

\* The record search_relevant_chunks builds from point pt for a question.
RowOf(pt, question) ==
    [text |-> pt.text, source |-> pt.source, chunk_index |-> pt.chunk_index,
     score |-> Similarity(pt.vector, EmbeddingOf(question))]

\* C20: search_relevant_chunks on a listed, provisioned collection returns at
\* most top_k records (as many as the collection has points, if fewer), each
\* with the fields text, source, chunk_index and score of a point of the named
\* collection, best score first, none of the points left out scoring higher
\* than a point returned; when the query embedding or the similarity query
\* fails it returns the empty list.
C20_SearchReturnsTopK ==
    \A p \in Procs :
        Served(p, "search_relevant_chunks") =>
            LET rows == result[p].rows
                points == store[call[p].coll].points
                q == call[p].question
            IN  /\ hist[p].caught =>
                      result[p].kind = "returned" /\ rows = <<>>
                /\ (result[p].at = "query_points" /\ ~hist[p].caught) =>
                      /\ result[p].kind = "returned"
                      /\ Len(rows) <= call[p].top_k
                      /\ Len(rows) = Min(call[p].top_k, Cardinality(points))
                      /\ \A k \in 1 .. Len(rows) :
                            /\ DOMAIN rows[k] =
                                  {"text", "source", "chunk_index", "score"}
                            /\ \E pt \in points : rows[k] = RowOf(pt, q)
                      /\ \A k \in 1 .. (Len(rows) - 1) :
                            rows[k].score >= rows[k + 1].score
                      /\ Cardinality(points) > Len(rows) =>
                            Cardinality({pt \in points :
                                RowOf(pt, q).score > rows[Len(rows)].score})
                              < Len(rows)

\* A search has returned top_k records of differing scores from a collection
\* that holds more than top_k points.
C20_Witness ==
    \E p \in Procs :
        /\ Served(p, "search_relevant_chunks")
        /\ result[p].at = "query_points"
        /\ ~hist[p].caught
        /\ Cardinality(store[call[p].coll].points) > call[p].top_k
        /\ Len(result[p].rows) = call[p].top_k
        /\ call[p].top_k > 1
        /\ result[p].rows[1].score > result[p].rows[2].score

\* The points of the searched collection whose text is the question.
Matching(p) == {pt \in snap[p].points : pt.text = call[p].question}

\* The record of point pt (its text, source and chunk_index) is among rows.
Returned(pt, rows) ==
    \E k \in 1 .. Len(rows) :
        /\ rows[k].text = pt.text
        /\ rows[k].source = pt.source
        /\ rows[k].chunk_index = pt.chunk_index

\* The search that follows an ingestion has got the store's answer.
Answered(p) ==
    /\ Ended(p, "search_relevant_chunks")
    /\ result[p].at = "query_points"
    /\ ~hist[p].caught

\* C21 as stated: when the question is the text of an ingested chunk, the
\* search that follows the ingestion returns the record of that chunk among
\* its top_k results.
C21_IngestedChunkReturned ==
    \A p \in Procs :
        Answered(p) => \A pt \in Matching(p) : Returned(pt, result[p].rows)

\* C21 amended: the record of every ingested chunk whose text is the question
\* is among the top_k results when at most top_k chunks of the collection
\* have that text; when more have it, every one of the top_k results is the
\* record of such a chunk.
C21_IngestedChunkReturnedIfRoom ==
    \A p \in Procs :
        Answered(p) =>
            IF Cardinality(Matching(p)) <= call[p].top_k
              THEN \A pt \in Matching(p) : Returned(pt, result[p].rows)
              ELSE /\ Len(result[p].rows) = call[p].top_k
                   /\ \A k \in 1 .. Len(result[p].rows) :
                         \E pt \in Matching(p) :
                            result[p].rows[k] = RowOf(pt, call[p].question)

\* The question is the text of one ingested chunk of a collection that holds
\* more than top_k chunks, and the search has returned that chunk's record.
C21_Witness ==
    \E p \in Procs :
        /\ Answered(p)
        /\ Cardinality(snap[p].points) > call[p].top_k
        /\ Matching(p) # {}
        /\ Cardinality(Matching(p)) <= call[p].top_k
        /\ \A pt \in Matching(p) : Returned(pt, result[p].rows)

\* C22: get_collection_stats on a readable collection of p points reports
\* total_chunks = p, used_mb = p * 5096 bytes in megabytes (to the nearest
\* hundredth), limit_mb = 500 and available_mb = max(0, 500 - used_mb):
\* available_mb is never negative, and used_mb + available_mb = 500 whenever
\* used_mb <= 500.  Megabytes are in hundredths; 5096 * 100 / 2^20 is taken
\* as 15925 / 32768.
C22_StatsNumbers ==
    \A p \in Procs :
        (Served(p, "get_collection_stats")
         /\ result[p].at \in {"try", "try_sized"}) =>
            LET stats == result[p].stats
                error == stats.used_mb * 32768 - stats.total_chunks * 15925
            IN  /\ result[p].at = "try" =>
                      stats.total_chunks = Cardinality(snap[p].points)
                /\ stats.total_chunks >= 0
                /\ error >= -16384 /\ error <= 16384
                /\ stats.limit_mb = 50000
                /\ stats.available_mb >= 0
                /\ stats.available_mb =
                      (IF stats.used_mb <= 50000 THEN 50000 - stats.used_mb ELSE 0)
                /\ stats.used_mb <= 50000 =>
                      stats.used_mb + stats.available_mb = 50000

\* The statistics of a collection whose estimated size is over the limit
\* have been returned.
C22_Witness ==
    \E p \in Procs :
        /\ Served(p, "get_collection_stats")
        /\ result[p].at = "try_sized"
        /\ result[p].stats.used_mb > 50000
        /\ result[p].stats.available_mb = 0

\* The points of a user's collection that come from a file.
PointsOf(user, filename) ==
    {pt \in store[user].points : pt.source = filename}

\* C23: whenever every /embed and /delete request made so far has been
\* answered, for every user and filename the chunks_stored of the
\* DocumentRecord is the number of points of the user's collection whose
\* source is that filename, and a filename has points only if it has a
\* DocumentRecord.
C23_BookkeepingConsistent ==
    (\A p \in Procs : pc[p] \in {"idle", "responded"}) =>
        \A user \in Colls, filename \in Sources :
            /\ \A d \in RecordsOf(user, filename) :
                  d.chunks_stored = Cardinality(PointsOf(user, filename))
            /\ PointsOf(user, filename) # {} => RecordsOf(user, filename) # {}

\* Two ingestions into one collection that neither of them found listed.
RacingIngestions(p, q) ==
    /\ p # q
    /\ Pipeline(p, "embed_and_store") /\ Pipeline(q, "embed_and_store")
    /\ call[p].coll = call[q].coll
    /\ loc[p].listed = "no" /\ loc[q].listed = "no"

C25_CountIsPointsWritten ==
    \A p \in Procs :
        Pipeline(p, "embed_and_store") =>
            /\ loc[p].stored = Cardinality(NewPoints(p))
            /\ (pc[p] = "done" /\ result[p].kind = "returned") =>
                  result[p].count = Cardinality(NewPoints(p))

\* The loops of a call stay within their limits: an activation of
\* embed_batch_with_retry has made at most MAX_RETRIES provider calls, an
\* activation of ensure_payload_indexes at most one index-creation request
\* and POLL_ATTEMPTS polls, and embed_and_store over n chunks has started at
\* most ceil(n / SAFE_BATCH_SIZE) batches.
WithinLimits(p) ==
    /\ ebr[p].calls <= MAX_RETRIES
    /\ ens[p].indexCreates <= 1
    /\ ens[p].polls <= POLL_ATTEMPTS
    /\ hist[p].batches <= CeilDiv(Len(call[p].chunks), SAFE_BATCH_SIZE)

\* C26: whatever the provider and the store answer, as long as each request
\* returns or fails, every call ends (it returns or raises): its loops stay
\* within 10 provider calls per batch, 1 index-creation request and 10 polls
\* per provisioning, and ceil(n/8) batches per ingestion of n chunks, and a
\* call that has started eventually reaches its end.
C26_EveryCallTerminates ==
    /\ [](\A p \in Procs : WithinLimits(p))
    /\ \A p \in Procs : (pc[p] \notin {"idle", "done"}) ~> (pc[p] = "done")

\* A call has ended after using up the polls of ensure_payload_indexes, and
\* an ingestion has ended after using up the provider calls of a batch.
C26_Witness ==
    \/ \E p \in Procs :
          /\ pc[p] = "done"
          /\ ens[p].polls = POLL_ATTEMPTS
          /\ result[p].kind = "raised"
    \/ \E p \in Procs :
          /\ Ended(p, "embed_and_store")
          /\ ebr[p].calls = MAX_RETRIES

====
